---- MODULE Spec2Model ----
(***************************************************************************)
(* Model of vulkano/src/buffer/traits.rs: the Buffer and TrackedBuffer     *)
(* traits, their default method bodies, and the forwarding implementations *)
(* for &B and Arc<B>.                                                      *)
(*                                                                         *)
(* A buffer object is a record [res, offset, len, kind]: the raw resource  *)
(* it lives in, the byte offset of the described range, the byte length of *)
(* the described range, and which trait methods its type supplies itself.  *)
(* A handle is a buffer together with the stack of wrappers (&, Arc) the   *)
(* call goes through.                                                      *)
(***************************************************************************)
EXTENDS Integers, Sequences, FiniteSets, TLC

VARIABLES
    pc,          \* position of the caller: "ready", "done", "recording", "finished", "submitted"
    build,       \* "debug" (debug_assertions and overflow checks on) or "release"
    op,          \* the trait method under call
    self,        \* the handle the method is called on
    other,       \* the `other: &Buffer` argument of conflicts_buffer
    args,        \* the access arguments of conflicts_buffer / conflict_key
    result,      \* what the last call returned (or that it panicked)
    states,      \* the caller-owned `States` store handed to transition/finish
    outStates,   \* the `out` store handed to finish
    call,        \* arguments of the latest transition call
    prevCall,    \* arguments of the transition call before it
    prevResult,  \* what the transition call before the latest returned
    count        \* number of transition calls made on the store

vars == <<pc, build, op, self, other, args, result, states, outStates,
          call, prevCall, prevResult, count>>

---------------------------------------------------------------------------
\* Bounds of the model.

\* Byte size of every raw resource (UnsafeBuffer::size()).
ResourceSize == 2
\* Largest access offset passed to conflicts_buffer / transition.
MaxAccessOffset == 1
\* Largest access size passed to conflicts_buffer / transition.
MaxAccessSize == 2
\* Deepest nesting of & / Arc around a buffer.
MaxWrap == 1
\* Largest command number passed to transition.
MaxCommand == 2
\* Width of usize in bits.
UsizeBits == 2

\* Identities of the raw resources (UnsafeBuffer::internal_object()).
Resources == {1, 2}
BuildModes == {"debug", "release"}
Stages == {"Transfer", "Compute"}
UsizeModulus == 2 ^ UsizeBits

---------------------------------------------------------------------------
\* Values.

Ok(v) == [tag |-> "ok", val |-> v]
Panic(why) == [tag |-> "panic", why |-> why]
None == [some |-> FALSE]
Some(v) == [some |-> TRUE, val |-> v]

\* "default": the type supplies inner() and the three required TrackedBuffer
\* methods only, and takes every default body of the traits.
\* "full": the type also supplies size() and conflict_key().
Kinds == {"default", "full"}

Buffers ==
    { [res |-> r, offset |-> o, len |-> ResourceSize - o, kind |-> "default"] :
          r \in Resources, o \in 0..ResourceSize }
    \cup
    { b \in [res : Resources, offset : 0..ResourceSize, len : 0..ResourceSize,
             kind : {"full"}] : b.offset + b.len <= ResourceSize }

WrapperKinds == {"Ref", "Arc"}
Wrappers == UNION { [1..n -> WrapperKinds] : n \in 0..MaxWrap }
Handles == [wrap : Wrappers, buf : Buffers]
Direct(b) == [wrap |-> <<>>, buf |-> b]

\* (**self): the value a & or Arc points at.
Deref(h) == [h EXCEPT !.wrap = Tail(h.wrap)]
\* The buffer object at the bottom of a handle.
Base(h) == Direct(h.buf)

NoArgs == [so |-> 0, ss |-> 0, sw |-> FALSE, oo |-> 0, os |-> 0, ow |-> FALSE]
AccessArgs ==
    [so : 0..MaxAccessOffset, ss : 0..MaxAccessSize, sw : BOOLEAN,
     oo : 0..MaxAccessOffset, os : 0..MaxAccessSize, ow : BOOLEAN]
KeyArgs ==
    [so : 0..MaxAccessOffset, ss : 0..MaxAccessSize, sw : BOOLEAN,
     oo : {0}, os : {0}, ow : {FALSE}]

---------------------------------------------------------------------------
\* usize arithmetic: `+` panics on overflow when overflow checks are on and
\* wraps otherwise.

Overflows(x, y) == x + y >= UsizeModulus
WrappingAdd(x, y) == (x + y) % UsizeModulus
OverflowChecks == build = "debug"
DebugAssertions == build = "debug"

---------------------------------------------------------------------------
\* trait Buffer

\* UnsafeBuffer::size() of a raw resource.
UnsafeBufferSize(r) == ResourceSize

\* inner() as the buffer's own type supplies it.
BufferInner(b) == [buffer |-> b.res, offset |-> b.offset]

RECURSIVE Inner(_)
\* impl Buffer for &'a B: inner
RefInner(h) == Inner(Deref(h))
\* impl Buffer for Arc<B>: inner
ArcInner(h) == Inner(Deref(h))
\* Buffer::inner, resolved on the handle's type.
Inner(h) ==
    IF h.wrap = <<>> THEN BufferInner(h.buf)
    ELSE IF Head(h.wrap) = "Ref" THEN RefInner(h)
    ELSE ArcInner(h)

\* Buffer::size, the default body.
DefaultSize(h) == UnsafeBufferSize(Inner(h).buffer)
\* size() of a type that stores the length of the range it describes.
FullSize(b) == b.len

RECURSIVE Size(_)
\* impl Buffer for &'a B: size
RefSize(h) == Size(Deref(h))
\* impl Buffer for Arc<B>: size
ArcSize(h) == Size(Deref(h))
\* Buffer::size, resolved on the handle's type.
Size(h) ==
    IF h.wrap = <<>>
    THEN IF h.buf.kind = "full" THEN FullSize(h.buf) ELSE DefaultSize(h)
    ELSE IF Head(h.wrap) = "Ref" THEN RefSize(h)
    ELSE ArcSize(h)

---------------------------------------------------------------------------
\* trait TrackedBuffer: conflicts_buffer

\* `self.inner().buffer.internal_object() != other.inner().buffer.internal_object()`
\* with the comparison dropped.
DifferentResourceNever(h, o) == FALSE
\* `self.inner().buffer.internal_object() != other.inner().buffer.internal_object()`
DifferentResource(h, o) == Inner(h).buffer # Inner(o).buffer

\* `!self_write && !other_write` with the second negation lost.
BothReadsLostNegation(sw, ow) == ~sw /\ ow
\* `!self_write && !other_write`
BothReads(sw, ow) == ~sw /\ ~ow

\* `self_offset < other_offset && self_offset + self_size <= other_offset`
SelfBeforeOther(s1, ss, s2) == s1 < s2 /\ WrappingAdd(s1, ss) <= s2

\* The second range test with `<` for `<=`.
OtherBeforeSelfStrict(s2, os, s1) == s2 < s1 /\ WrappingAdd(s2, os) < s1
\* `other_offset < self_offset && other_offset + other_size <= self_offset`
OtherBeforeSelf(s2, os, s1) == s2 < s1 /\ WrappingAdd(s2, os) <= s1

\* TrackedBuffer::conflicts_buffer, the default body.  h is self, o is other.
\* Each `+` is preceded by its overflow check, in evaluation order.
DefaultConflictsBuffer(h, so, ss, sw, o, oo, os, ow) ==
    IF DebugAssertions /\ ~(ss <= Size(h)) THEN Panic("debug_assert")
    ELSE IF DifferentResource(h, o) THEN Ok(FALSE)
    ELSE IF BothReads(sw, ow) THEN Ok(FALSE)
    ELSE IF OverflowChecks /\ Overflows(so, Inner(h).offset) THEN Panic("overflow")
    ELSE IF OverflowChecks /\ Overflows(oo, Inner(o).offset) THEN Panic("overflow")
    ELSE LET s1 == WrappingAdd(so, Inner(h).offset)
             s2 == WrappingAdd(oo, Inner(o).offset)
         IN  IF s1 < s2 /\ OverflowChecks /\ Overflows(s1, ss) THEN Panic("overflow")
             ELSE IF SelfBeforeOther(s1, ss, s2) THEN Ok(FALSE)
             ELSE IF s2 < s1 /\ OverflowChecks /\ Overflows(s2, os) THEN Panic("overflow")
             ELSE IF OtherBeforeSelf(s2, os, s1) THEN Ok(FALSE)
             ELSE Ok(TRUE)

RECURSIVE ConflictsBuffer(_, _, _, _, _, _, _, _)
\* impl TrackedBuffer<S> for Arc<B>: conflicts_buffer
ArcConflictsBuffer(h, so, ss, sw, o, oo, os, ow) ==
    ConflictsBuffer(Deref(h), so, ss, sw, o, oo, os, ow)
\* impl TrackedBuffer<S> for &'a B: conflicts_buffer
RefConflictsBuffer(h, so, ss, sw, o, oo, os, ow) ==
    ConflictsBuffer(Deref(h), so, ss, sw, o, oo, os, ow)
\* TrackedBuffer::conflicts_buffer, resolved on the handle's type.
ConflictsBuffer(h, so, ss, sw, o, oo, os, ow) ==
    IF h.wrap = <<>> THEN DefaultConflictsBuffer(h, so, ss, sw, o, oo, os, ow)
    ELSE IF Head(h.wrap) = "Arc" THEN ArcConflictsBuffer(h, so, ss, sw, o, oo, os, ow)
    ELSE RefConflictsBuffer(h, so, ss, sw, o, oo, os, ow)

---------------------------------------------------------------------------
\* trait TrackedBuffer: conflict_key

\* TrackedBuffer::conflict_key, the default body: unimplemented!().
DefaultConflictKey(h, so, ss, sw) == Panic("unimplemented")
\* conflict_key() of a type that supplies it: one key per raw resource.
FullConflictKey(b, so, ss, sw) == Ok(b.res)
\* TrackedBuffer::conflict_key, resolved on the handle's type.  Neither the
\* impl for Arc<B> nor the impl for &B has a conflict_key item, so both take
\* the default body.
ConflictKey(h, so, ss, sw) ==
    IF h.wrap = <<>> /\ h.buf.kind = "full" THEN FullConflictKey(h.buf, so, ss, sw)
    ELSE DefaultConflictKey(h, so, ss, sw)

---------------------------------------------------------------------------
\* trait TrackedBuffer: transition, finish, on_submit.  The trait only
\* declares them; the bodies below are the per-resource state machine of a
\* tracked buffer type.

Unused == [used |-> FALSE, write |-> FALSE, stages |-> {}, access |-> {}, cmd |-> 0]
Used(num, write, stages, access) ==
    [used |-> TRUE, write |-> write, stages |-> stages, access |-> access, cmd |-> num]

\* struct TrackedBufferPipelineMemoryBarrierRequest
MemoryBarrierRequest(off, size, src, dst) ==
    [offset |-> off, size |-> size, source_access |-> src, destination_access |-> dst]
\* struct TrackedBufferPipelineBarrierRequest
BarrierRequest(after, src, dst, mem) ==
    [after_command_num |-> after, source_stage |-> src, destination_stages |-> dst,
     by_region |-> TRUE, memory_barrier |-> mem]
\* struct TrackedBufferSubmitInfos
SubmitInfos(preSem, postSem, preBar, postBar) ==
    [pre_semaphore |-> preSem, post_semaphore |-> postSem,
     pre_barrier |-> preBar, post_barrier |-> postBar]

\* transition() of a tracked buffer type: yields the returned Option and the
\* updated store.
BufferTransition(b, st, num, off, size, write, stage, access) ==
    LET s == st[b.res]
        next == Used(num, write, {stage}, access)
    IN  IF ~s.used
        THEN [ret |-> None, states |-> [st EXCEPT ![b.res] = next]]
        ELSE IF ~s.write /\ ~write
        THEN [ret |-> None,
              states |-> [st EXCEPT ![b.res] =
                  Used(num, FALSE, s.stages \cup {stage}, s.access \cup access)]]
        ELSE [ret |-> Some(BarrierRequest(s.cmd, s.stages, {stage},
                          Some(MemoryBarrierRequest(off, size, s.access, access)))),
              states |-> [st EXCEPT ![b.res] = next]]

RECURSIVE Transition(_, _, _, _, _, _, _, _)
\* The forwarding call with num_command and offset exchanged.
ArcTransitionSwappedCommand(h, st, num, off, size, write, stage, access) ==
    Transition(Deref(h), st, off, num, size, write, stage, access)
\* The forwarding call with offset and size exchanged.
RefTransitionSwappedRange(h, st, num, off, size, write, stage, access) ==
    Transition(Deref(h), st, num, size, off, write, stage, access)
\* impl TrackedBuffer<S> for Arc<B>: transition
ArcTransition(h, st, num, off, size, write, stage, access) ==
    Transition(Deref(h), st, num, off, size, write, stage, access)
\* impl TrackedBuffer<S> for &'a B: transition
RefTransition(h, st, num, off, size, write, stage, access) ==
    Transition(Deref(h), st, num, off, size, write, stage, access)
\* TrackedBuffer::transition, resolved on the handle's type.
Transition(h, st, num, off, size, write, stage, access) ==
    IF h.wrap = <<>> THEN BufferTransition(h.buf, st, num, off, size, write, stage, access)
    ELSE IF Head(h.wrap) = "Arc" THEN ArcTransition(h, st, num, off, size, write, stage, access)
    ELSE RefTransition(h, st, num, off, size, write, stage, access)

\* finish() of a tracked buffer type: a trailing barrier guards a last write;
\* the final state moves to the out store.
BufferFinish(b, in, out) ==
    LET s == in[b.res]
    IN  [ret |-> IF s.used /\ s.write
                 THEN Some(BarrierRequest(s.cmd, s.stages, {"BottomOfPipe"},
                          Some(MemoryBarrierRequest(0, b.len, s.access, {}))))
                 ELSE None,
         in |-> in,
         out |-> [out EXCEPT ![b.res] = s]]

RECURSIVE Finish(_, _, _)
\* impl TrackedBuffer<S> for Arc<B>: finish
ArcFinish(h, i, o) == Finish(Deref(h), i, o)
\* impl TrackedBuffer<S> for &'a B: finish
RefFinish(h, i, o) == Finish(Deref(h), i, o)
\* TrackedBuffer::finish, resolved on the handle's type.
Finish(h, i, o) ==
    IF h.wrap = <<>> THEN BufferFinish(h.buf, i, o)
    ELSE IF Head(h.wrap) = "Arc" THEN ArcFinish(h, i, o)
    ELSE RefFinish(h, i, o)

\* on_submit() of a tracked buffer type: nothing recorded in one sequence
\* needs synchronising with another.
BufferOnSubmit(b, st) == SubmitInfos(None, None, None, None)

RECURSIVE OnSubmit(_, _)
\* impl TrackedBuffer<S> for Arc<B>: on_submit
ArcOnSubmit(h, st) == OnSubmit(Deref(h), st)
\* impl TrackedBuffer<S> for &'a B: on_submit
RefOnSubmit(h, st) == OnSubmit(Deref(h), st)
\* TrackedBuffer::on_submit, resolved on the handle's type.
OnSubmit(h, st) ==
    IF h.wrap = <<>> THEN BufferOnSubmit(h.buf, st)
    ELSE IF Head(h.wrap) = "Arc" THEN ArcOnSubmit(h, st)
    ELSE RefOnSubmit(h, st)

---------------------------------------------------------------------------
\* The callers.

NoResult == [tag |-> "none"]
NoCall == [num |-> -1, offset |-> 0, size |-> 0, write |-> FALSE,
           stage |-> "none", access |-> {}]
FreshStates == [r \in Resources |-> Unused]

\* Handles to buffers that describe a whole resource and supply every method:
\* the ones recorded on.
TrackedHandles ==
    { h \in Handles : h.buf.offset = 0 /\ h.buf.len = ResourceSize /\ h.buf.kind = "full" }
\* The byte ranges of a buffer that an access can name.
RangesOf(h) ==
    { r \in [offset : 0..MaxAccessOffset, size : 1..MaxAccessSize] :
          r.offset + r.size <= Size(h) }
DirectHandles == { Direct(b) : b \in Buffers }
AccessOf(write) == IF write THEN {"write"} ELSE {"read"}

InitWith(o, builds, hs, others) ==
    /\ pc = "ready"
    /\ build \in builds
    /\ op = o
    /\ self \in hs
    /\ other \in others
    /\ args = NoArgs
    /\ result = NoResult
    /\ states = FreshStates
    /\ outStates = FreshStates
    /\ call = NoCall
    /\ prevCall = NoCall
    /\ prevResult = NoResult
    /\ count = 0

AnyOther == { Direct(CHOOSE b \in Buffers : b.offset = 0 /\ b.kind = "default" /\ b.res = 1) }

Init ==
    \/ InitWith("inner", BuildModes, Handles, AnyOther)
    \/ InitWith("size", BuildModes, Handles, AnyOther)
    \/ InitWith("conflict_key", BuildModes, Handles, AnyOther)
    \/ InitWith("conflicts_buffer", BuildModes, Handles, DirectHandles)
    \/ InitWith("record", {"release"}, TrackedHandles, AnyOther)

InitHazard == InitWith("conflicts_buffer", BuildModes, DirectHandles, DirectHandles)

InitTracker == InitWith("record", {"release"}, TrackedHandles, AnyOther)

Pure == <<states, outStates, call, prevCall, prevResult, count>>

CallInner ==
    /\ pc = "ready" /\ op = "inner"
    /\ result' = Ok(Inner(self))
    /\ pc' = "done"
    /\ UNCHANGED <<build, op, self, other, args, Pure>>

CallSize ==
    /\ pc = "ready" /\ op = "size"
    /\ result' = Ok(Size(self))
    /\ pc' = "done"
    /\ UNCHANGED <<build, op, self, other, args, Pure>>

CallConflictKey ==
    /\ pc = "ready" /\ op = "conflict_key"
    /\ \E a \in KeyArgs :
          /\ args' = a
          /\ result' = ConflictKey(self, a.so, a.ss, a.sw)
    /\ pc' = "done"
    /\ UNCHANGED <<build, op, self, other, Pure>>

CallConflictsBuffer ==
    /\ pc = "ready" /\ op = "conflicts_buffer"
    /\ \E a \in AccessArgs :
          /\ args' = a
          /\ result' = ConflictsBuffer(self, a.so, a.ss, a.sw, other, a.oo, a.os, a.ow)
    /\ pc' = "done"
    /\ UNCHANGED <<build, op, self, other, Pure>>

\* The builder records one more access: command numbers grow from call to call.
CallTransition ==
    /\ pc \in {"ready", "recording"} /\ op = "record"
    /\ \E num \in (call.num + 1)..MaxCommand, r \in RangesOf(self),
          write \in BOOLEAN, stage \in Stages :
          LET off == r.offset
              size == r.size
              t == Transition(self, states, num, off, size, write, stage, AccessOf(write))
          IN  /\ call' = [num |-> num, offset |-> off, size |-> size, write |-> write,
                          stage |-> stage, access |-> AccessOf(write)]
              /\ result' = Ok(t.ret)
              /\ states' = t.states
    /\ prevCall' = call
    /\ prevResult' = result
    /\ count' = count + 1
    /\ pc' = "recording"
    /\ UNCHANGED <<build, op, self, other, args, outStates>>

\* The builder is turned into a command buffer.
CallFinish ==
    /\ pc \in {"ready", "recording"} /\ op = "record"
    /\ LET f == Finish(self, states, outStates)
       IN  /\ result' = Ok(f.ret)
           /\ states' = f.in
           /\ outStates' = f.out
    /\ call' = NoCall
    /\ prevCall' = NoCall
    /\ prevResult' = NoResult
    /\ count' = 0
    /\ pc' = "finished"
    /\ UNCHANGED <<build, op, self, other, args>>

\* The command buffer is submitted.
CallOnSubmit ==
    /\ pc = "finished"
    /\ result' = Ok(OnSubmit(self, outStates))
    /\ pc' = "submitted"
    /\ UNCHANGED <<build, op, self, other, args, Pure>>

NextTracker == CallTransition \/ CallFinish \/ CallOnSubmit

Next ==
    \/ CallInner
    \/ CallSize
    \/ CallConflictKey
    \/ CallConflictsBuffer
    \/ CallTransition
    \/ CallFinish
    \/ CallOnSubmit

\* Every trait method, called through every handle.
Spec == Init /\ [][Next]_vars
\* conflicts_buffer's default body, called on the buffers themselves.
SpecHazard == InitHazard /\ [][CallConflictsBuffer]_vars
\* One recording on one store, through every handle to a whole resource.
SpecTracker == InitTracker /\ [][NextTracker]_vars

---------------------------------------------------------------------------
\* Properties.

Done(o) == pc = "done" /\ op = o
\* Absolute start of each access, in unbounded arithmetic.
AbsSelf == args.so + Inner(self).offset
AbsOther == args.oo + Inner(other).offset
SameRaw == Inner(self).buffer = Inner(other).buffer
\* The half-open ranges [s1, s1+n1) and [s2, s2+n2) overlap.
HalfOpenOverlap(s1, n1, s2, n2) == ~(s1 + n1 <= s2 \/ s2 + n2 <= s1)
\* The call respects `self_size <= self.size()` and no sum leaves usize.
InContract ==
    /\ args.ss <= Size(self)
    /\ AbsSelf + args.ss < UsizeModulus
    /\ AbsOther + args.os < UsizeModulus

\* C1: on one raw resource with at least one write, conflicts_buffer returns
\* true exactly when the absolute byte ranges overlap as half-open intervals,
\* zero-sized accesses and equal start offsets included.
C1_HalfOpenIff ==
    (Done("conflicts_buffer") /\ SameRaw /\ (args.sw \/ args.ow) /\ InContract)
        => result = Ok(HalfOpenOverlap(AbsSelf, args.ss, AbsOther, args.os))

\* C2: every trait method called through & or Arc returns what the same call
\* on the wrapped buffer returns, and leaves the stores as that call leaves them.
C2_ForwardsEveryCall ==
    [][ (self.wrap # <<>>) =>
          /\ (pc' = "done" /\ op = "inner") => result' = Ok(Inner(Base(self)))
          /\ (pc' = "done" /\ op = "size") => result' = Ok(Size(Base(self)))
          /\ (pc' = "done" /\ op = "conflicts_buffer") =>
                result' = ConflictsBuffer(Base(self), args'.so, args'.ss, args'.sw,
                                          other, args'.oo, args'.os, args'.ow)
          /\ (pc' = "done" /\ op = "conflict_key") =>
                result' = ConflictKey(Base(self), args'.so, args'.ss, args'.sw)
          /\ (count' = count + 1) =>
                LET t == Transition(Base(self), states, call'.num, call'.offset,
                                    call'.size, call'.write, call'.stage, call'.access)
                IN  result' = Ok(t.ret) /\ states' = t.states
          /\ (pc' = "finished") =>
                LET f == Finish(Base(self), states, outStates)
                IN  result' = Ok(f.ret) /\ states' = f.in /\ outStates' = f.out
          /\ (pc' = "submitted") => result' = Ok(OnSubmit(Base(self), outStates))
      ]_vars

\* C3: a conflicts_buffer call whose self size exceeds self.size() is rejected
\* in every build, never answered with a boolean.
C3_OversizeRejected ==
    (Done("conflicts_buffer") /\ args.ss > Size(self)) => result.tag = "panic"

\* C4: conflict_key on a tracked buffer returns a key and never fails as
\* not implemented, also for a type that supplies only the required methods.
C4_ConflictKeyReturns ==
    (Done("conflict_key") /\ self.wrap = <<>>) => result.tag = "ok"

\* C5 as written: for different raw resources conflicts_buffer returns false
\* for every choice of offsets, sizes and flags.
C5_DisjointAlwaysFalse ==
    (Done("conflicts_buffer") /\ ~SameRaw) => result = Ok(FALSE)

\* C5: for different raw resources conflicts_buffer returns false for every
\* choice of offsets and flags and every self size within self.size(); with a
\* larger self size it returns false in a release build and panics on the
\* debug assertion in a debug build.
C5_DisjointFalseUnlessAssert ==
    (Done("conflicts_buffer") /\ ~SameRaw)
        => result = IF build = "debug" /\ args.ss > Size(self)
                    THEN Panic("debug_assert") ELSE Ok(FALSE)

\* A write/write call on two resources whose ranges have the same absolute
\* bytes has returned false.
C5_Witness ==
    /\ Done("conflicts_buffer") /\ ~SameRaw
    /\ args.sw /\ args.ow
    /\ args.ss > 0 /\ args.os > 0 /\ AbsSelf = AbsOther
    /\ result = Ok(FALSE)

\* C6 as written: two reads on one raw resource return false for every pair
\* of byte ranges.
C6_ReadReadAlwaysFalse ==
    (Done("conflicts_buffer") /\ SameRaw /\ ~args.sw /\ ~args.ow) => result = Ok(FALSE)

\* C6: two reads on one raw resource return false for every pair of byte
\* ranges whose self size is within self.size(); with a larger self size the
\* call returns false in a release build and panics on the debug assertion in
\* a debug build.
C6_ReadReadFalseUnlessAssert ==
    (Done("conflicts_buffer") /\ SameRaw /\ ~args.sw /\ ~args.ow)
        => result = IF build = "debug" /\ args.ss > Size(self)
                    THEN Panic("debug_assert") ELSE Ok(FALSE)

\* Two reads of the same non-empty bytes of one resource have returned false.
C6_Witness ==
    /\ Done("conflicts_buffer") /\ SameRaw
    /\ ~args.sw /\ ~args.ow
    /\ args.ss > 0 /\ args.os > 0 /\ AbsSelf = AbsOther
    /\ result = Ok(FALSE)

\* C7: size() is the size of the described range: inner().offset + size()
\* stays within the raw resource, for every offset.
C7_SizeWithinResource ==
    Done("size") => Inner(self).offset + result.val <= UnsafeBufferSize(Inner(self).buffer)

RangesOverlap == HalfOpenOverlap(prevCall.offset, prevCall.size, call.offset, call.size)
\* A write has been recorded and the next call records a read of an
\* overlapping range at another stage.
ReadAfterWrite ==
    /\ pc = "recording" /\ count >= 2
    /\ prevCall.write /\ ~call.write
    /\ prevCall.stage # call.stage
    /\ RangesOverlap

C10_Symmetric ==
    (Done("conflicts_buffer") /\ args.ss <= Size(self) /\ args.os <= Size(other))
        => result = ConflictsBuffer(other, args.oo, args.os, args.ow,
                                    self, args.so, args.ss, args.sw)

\* A conflict has been reported between two different accesses through two
\* different buffers, the later range being the self one.
C10_Witness ==
    /\ Done("conflicts_buffer") /\ args.ss <= Size(self) /\ args.os <= Size(other)
    /\ self # other
    /\ args.sw # args.ow
    /\ AbsOther < AbsSelf
    /\ result = Ok(TRUE)

====
